---------------------------- MODULE Spec2Model ----------------------------
(***************************************************************************)
(* A model of inferno/history.py: the History log (a list of epoch dicts,  *)
(* each holding a list of batch dicts) with its four writers and its       *)
(* composite indexing History.__getitem__.                                 *)
(*                                                                         *)
(* Python objects are records tagged with their type, each type with a     *)
(* payload field of its own:                                               *)
(*   [t |-> "int", int |-> n]                                              *)
(*   [t |-> "str", str |-> s]                                              *)
(*   [t |-> "none"]                          None                          *)
(*   [t |-> "slice", start |-> b, stop |-> b]  a bound is <<>> (None) or   *)
(*                                           <<n>>; the step is None       *)
(*   [t |-> "dict", map |-> f]               f a function on a set of      *)
(*                                           strings                       *)
(*   [t |-> "list", items |-> s]             s a sequence                  *)
(*   [t |-> "tuple", elts |-> s]             s a sequence                  *)
(*   [t |-> "missingno", e |-> key]          the marker of line 91, with   *)
(*                                           the key of its KeyError       *)
(*   [t |-> "raise", exc |-> class, key |-> key]   not an object: the call *)
(*                                           raised instead of returning   *)
(***************************************************************************)
EXTENDS Integers, Sequences, FiniteSets, TLC

VARIABLES history, call, result

vars == <<history, call, result>>

---------------------------------------------------------------------------
(* Python values *)

IntV(n) == [t |-> "int", int |-> n]

NoneV == [t |-> "none"]

DictV(f) == [t |-> "dict", map |-> f]

ListV(s) == [t |-> "list", items |-> s]

TupleV(s) == [t |-> "tuple", elts |-> s]

missingno(key) == [t |-> "missingno", e |-> key]

Raise(exc, key) == [t |-> "raise", exc |-> exc, key |-> key]

IsRaise(x) == x.t = "raise"

IsKeyError(x) == x.t = "raise" /\ x.exc = "KeyError"

EmptyDict == DictV(<<>>)

(* d[key] = value on a dict payload *)
DictSet(f, key, value) ==
    [k \in (DOMAIN f) \cup {key} |-> IF k = key THEN value ELSE f[k]]

StrV(s) == [t |-> "str", str |-> s]

SliceV(start, stop) == [t |-> "slice", start |-> start, stop |-> stop]

(* The first raised exception of a sequence of results evaluated left to   *)
(* right (a list comprehension stops at the first element that raises),    *)
(* or the list of the results.                                             *)
Collect(rs) ==
    IF \E j \in 1..Len(rs) : IsRaise(rs[j])
    THEN rs[CHOOSE j \in 1..Len(rs) :
                /\ IsRaise(rs[j])
                /\ \A m \in 1..(j - 1) : ~IsRaise(rs[m])]
    ELSE ListV(rs)

(* list.__getitem__(int): negative offsets count from the end *)
ListIndex(s, i) ==
    LET j == IF i < 0 THEN i + Len(s) ELSE i
    IN  IF 0 <= j /\ j < Len(s) THEN s[j + 1] ELSE Raise("IndexError", "")

(* slice.indices with step None: the bounds clamped to 0..len *)
SliceBound(b, n, default) ==
    IF b = <<>> THEN default
    ELSE IF b[1] < 0 THEN (IF b[1] + n < 0 THEN 0 ELSE b[1] + n)
    ELSE IF b[1] > n THEN n ELSE b[1]

(* list.__getitem__(slice) *)
ListSlice(s, sl) ==
    SubSeq(s, SliceBound(sl.start, Len(s), 0) + 1,
              SliceBound(sl.stop, Len(s), Len(s)))

(* `l[idx]` with its `except KeyError`: lines 124-127 *)
Subscript(l, idx) ==
    CASE l.t = "list" ->
            (CASE idx.t = "int" -> ListIndex(l.items, idx.int)
               [] idx.t = "slice" -> ListV(ListSlice(l.items, idx))
               [] OTHER -> Raise("TypeError", ""))
      [] l.t = "tuple" ->
            (CASE idx.t = "int" -> ListIndex(l.elts, idx.int)
               [] idx.t = "slice" -> TupleV(ListSlice(l.elts, idx))
               [] OTHER -> Raise("TypeError", ""))
      [] l.t = "dict" ->
            (CASE idx.t = "str" ->
                    IF idx.str \in DOMAIN l.map THEN l.map[idx.str]
                    ELSE missingno(idx.str)
               [] idx.t = "int" -> missingno(ToString(idx.int))
               [] OTHER -> Raise("TypeError", ""))
      [] OTHER -> Raise("TypeError", "")

(* incomplete_mapper keeping a composite of which a component is a marker  *)
incomplete_mapper_partial(x) ==
    IF \A j \in 1..Len(x) : x[j].t = "missingno" THEN x[1] ELSE TupleV(x)

(* incomplete_mapper, lines 110-114: the first marker among the joined     *)
(* values, or the tuple itself                                             *)
incomplete_mapper(x) ==
    IF \E j \in 1..Len(x) : x[j].t = "missingno"
    THEN x[CHOOSE j \in 1..Len(x) :
               /\ x[j].t = "missingno"
               /\ \A m \in 1..(j - 1) : x[m].t # "missingno"]
    ELSE TupleV(x)

(* zip over the lists of zz: as many tuples as the shortest of them *)
MinLen(zz) ==
    IF zz = <<>> THEN 0
    ELSE CHOOSE n \in {Len(zz[j].items) : j \in 1..Len(zz)} :
            \A j \in 1..Len(zz) : n <= Len(zz[j].items)

Zip(zz) ==
    [p \in 1..MinLen(zz) |-> [j \in 1..Len(zz) |-> zz[j].items[p]]]

RECURSIVE partial_index_outer(_, _)
(* partial_index without the unrolling of a list of lists *)
partial_index_outer(l, idx) ==
    LET is_list == l.t = "list"
        needs_indirection == is_list /\ idx.t \notin {"int", "tuple", "slice"}
    IN  IF needs_indirection
        THEN Collect([j \in 1..Len(l.items) |->
                         partial_index_outer(l.items[j], idx)])
        ELSE IF idx.t = "tuple"
        THEN LET zz == Collect([j \in 1..Len(idx.elts) |->
                                    partial_index_outer(l, idx.elts[j])])
             IN  IF IsRaise(zz) THEN zz
                 ELSE IF is_list
                 THEN LET total_join == Zip(zz.items)
                      IN  ListV([p \in 1..Len(total_join) |->
                                     incomplete_mapper(total_join[p])])
                 ELSE incomplete_mapper(zz.items)
        ELSE Subscript(l, idx)

RECURSIVE partial_index(_, _)
(* lines 97-127 *)
partial_index(l, idx) ==
    LET is_list == l.t = "list"
        needs_unrolling == is_list /\ Len(l.items) > 0 /\ l.items[1].t = "list"
        needs_indirection == is_list /\ idx.t \notin {"int", "tuple", "slice"}
    IN  IF needs_unrolling \/ needs_indirection
        THEN Collect([j \in 1..Len(l.items) |-> partial_index(l.items[j], idx)])
        ELSE IF idx.t = "tuple"
        THEN LET zz == Collect([j \in 1..Len(idx.elts) |->
                                    partial_index(l, idx.elts[j])])
             IN  IF IsRaise(zz) THEN zz
                 ELSE IF is_list
                 THEN LET total_join == Zip(zz.items)
                      IN  ListV([p \in 1..Len(total_join) |->
                                     incomplete_mapper(total_join[p])])
                 ELSE incomplete_mapper(zz.items)
        ELSE Subscript(l, idx)

RECURSIVE NotMissing_until(_)
(* the filter stopping at the first marker instead of passing over it *)
NotMissing_until(s) ==
    IF s = <<>> THEN <<>>
    ELSE IF Head(s).t = "missingno" THEN <<>>
    ELSE <<Head(s)>> \o NotMissing_until(Tail(s))

(* filter(lambda x: type(x) != __missingno, children), order kept *)
RECURSIVE NotMissing(_)
NotMissing(s) ==
    IF s = <<>> THEN <<>>
    ELSE IF Head(s).t = "missingno" THEN NotMissing(Tail(s))
    ELSE <<Head(s)>> \o NotMissing(Tail(s))

RECURSIVE filter_missing_strict(_)
(* filter_missing giving the marker as soon as one child is a marker *)
filter_missing_strict(x) ==
    IF x.t = "list"
    THEN LET children == [j \in 1..Len(x.items) |-> filter_missing_strict(x.items[j])]
         IN  IF \E j \in 1..Len(children) : children[j].t = "missingno"
             THEN children[CHOOSE j \in 1..Len(children) :
                               /\ children[j].t = "missingno"
                               /\ \A m \in 1..(j - 1) : children[m].t # "missingno"]
             ELSE ListV(children)
    ELSE x

RECURSIVE filter_missing_emptying(_)
(* filter_missing without the collapse of a list of markers to a marker *)
filter_missing_emptying(x) ==
    IF x.t = "list"
    THEN ListV(NotMissing([j \in 1..Len(x.items) |->
                              filter_missing_emptying(x.items[j])]))
    ELSE x

RECURSIVE filter_missing(_)
(* lines 129-137 *)
filter_missing(x) ==
    IF x.t = "list"
    THEN LET children == [j \in 1..Len(x.items) |-> filter_missing(x.items[j])]
             filtered == NotMissing(children)
         IN  IF Len(children) > 0 /\ Len(filtered) = 0
             THEN children[1]
             ELSE ListV(filtered)
    ELSE x

RECURSIVE Parts_returning(_, _)
(* the loop without its `raise x.e`: the marker goes on as the value *)
Parts_returning(x, parts) ==
    IF parts = <<>> THEN x
    ELSE LET x_dirty == partial_index(x, Head(parts))
         IN  IF IsRaise(x_dirty) THEN x_dirty
             ELSE Parts_returning(filter_missing(x_dirty), Tail(parts))

RECURSIVE Parts(_, _)
(* the loop of lines 141-146 over the parts left, x the value in scope *)
Parts(x, parts) ==
    IF parts = <<>> THEN x
    ELSE LET x_dirty == partial_index(x, Head(parts))
         IN  IF IsRaise(x_dirty) THEN x_dirty
             ELSE LET y == filter_missing(x_dirty)
                  IN  IF y.t = "missingno" THEN Raise("KeyError", y.e)
                      ELSE Parts(y, Tail(parts))

(* History.__getitem__, lines 87-148 *)
getitem(self, i) ==
    IF i.t \in {"int", "slice"} THEN Subscript(ListV(self), i)
    ELSE IF i.t = "tuple" THEN Parts(ListV(self), i.elts)
    ELSE Raise("ValueError", "")

---------------------------------------------------------------------------
(* The writers.  Each gives the list after the call and what the call      *)
(* returned or raised: [self |-> ..., ret |-> ...].                        *)

Returned(self, ret) == [self |-> self, ret |-> ret]

(* lines 59-61 *)
new_epoch(self) ==
    Returned(Append(self, DictV([k \in {"batches"} |-> ListV(<<>>)])), NoneV)

(* new_batch assigning a fresh one-batch list instead of appending *)
new_batch_assigning(self) ==
    IF self = <<>> THEN Returned(self, Raise("IndexError", ""))
    ELSE Returned(
           [self EXCEPT ![Len(self)] =
               DictV(DictSet(self[Len(self)].map, "batches", ListV(<<EmptyDict>>)))],
           NoneV)

(* lines 63-65: self[-1]['batches'].append({}) *)
new_batch(self) ==
    LET last == ListIndex(self, -1)
    IN  IF IsRaise(last) THEN Returned(self, last)
        ELSE LET batches == Subscript(last, StrV("batches"))
             IN  IF batches.t = "missingno"
                 THEN Returned(self, Raise("KeyError", batches.e))
                 ELSE IF batches.t # "list"
                 THEN Returned(self, Raise("AttributeError", ""))
                 ELSE Returned(
                        [self EXCEPT ![Len(self)] =
                            DictV(DictSet(last.map, "batches",
                                          ListV(Append(batches.items, EmptyDict))))],
                        NoneV)

(* lines 67-74 *)
record(self, attr, value) ==
    IF ~(Len(self) > 0) THEN Returned(self, Raise("AssertionError", ""))
    ELSE Returned(
           [self EXCEPT ![Len(self)] =
                DictV(DictSet(self[Len(self)].map, attr, value))],
           NoneV)

(* record_batch opening a batch of its own when the epoch has none *)
record_batch_opening(self, attr, value) ==
    IF self = <<>> THEN Returned(self, Raise("IndexError", ""))
    ELSE LET batches == self[Len(self)].map["batches"]
             opened == IF batches.t = "list" /\ batches.items # <<>>
                       THEN batches.items ELSE <<EmptyDict>>
         IN  Returned(
               [self EXCEPT ![Len(self)] =
                   DictV(DictSet(self[Len(self)].map, "batches",
                       ListV([opened EXCEPT ![Len(opened)] =
                           DictV(DictSet(opened[Len(opened)].map, attr, value))])))],
               NoneV)

(* record_batch writing to the first batch of the epoch, not the last *)
record_batch_first(self, attr, value) ==
    LET last == ListIndex(self, -1)
    IN  IF IsRaise(last) THEN Returned(self, last)
        ELSE LET batches == Subscript(last, StrV("batches"))
                 batch == IF batches.t = "missingno" THEN batches
                          ELSE Subscript(batches, IntV(0))
             IN  IF batch.t = "missingno"
                 THEN Returned(self, Raise("KeyError", batch.e))
                 ELSE IF IsRaise(batch) THEN Returned(self, batch)
                 ELSE IF batch.t # "dict"
                 THEN Returned(self, Raise("TypeError", ""))
                 ELSE Returned(
                        [self EXCEPT ![Len(self)] =
                            DictV(DictSet(last.map, "batches",
                                ListV([batches.items EXCEPT ![1] =
                                    DictV(DictSet(batch.map, attr, value))])))],
                        NoneV)

(* lines 76-81: self[-1]['batches'][-1][attr] = value *)
record_batch(self, attr, value) ==
    LET last == ListIndex(self, -1)
    IN  IF IsRaise(last) THEN Returned(self, last)
        ELSE LET batches == Subscript(last, StrV("batches"))
                 batch == IF batches.t = "missingno" THEN batches
                          ELSE Subscript(batches, IntV(-1))
             IN  IF batch.t = "missingno"
                 THEN Returned(self, Raise("KeyError", batch.e))
                 ELSE IF IsRaise(batch) THEN Returned(self, batch)
                 ELSE IF batch.t # "dict"
                 THEN Returned(self, Raise("TypeError", ""))
                 ELSE Returned(
                        [self EXCEPT ![Len(self)] =
                            DictV(DictSet(last.map, "batches",
                                ListV([batches.items EXCEPT ![Len(batches.items)] =
                                    DictV(DictSet(batch.map, attr, value))])))],
                        NoneV)

---------------------------------------------------------------------------
(* The calls a client makes, one action each.  `call` is the call made     *)
(* last and `result` what it returned or raised.                           *)

Call(op, attr, value, i) == [op |-> op, attr |-> attr, value |-> value, i |-> i]

NoCall == Call("none", "", NoneV, NoneV)

Init ==
    /\ history = <<>>
    /\ call = NoCall
    /\ result = NoneV

NewEpoch(maxEpochs) ==
    /\ Len(history) < maxEpochs
    /\ history' = new_epoch(history).self
    /\ result' = new_epoch(history).ret
    /\ call' = Call("new_epoch", "", NoneV, NoneV)

(* the batches of the current epoch, <<>> when there is no such list *)
CurrentBatches(self) ==
    IF self # <<>> /\ "batches" \in DOMAIN self[Len(self)].map
                   /\ self[Len(self)].map["batches"].t = "list"
    THEN self[Len(self)].map["batches"].items
    ELSE <<>>

NewBatch(maxBatches) ==
    /\ Len(CurrentBatches(history)) < maxBatches
    /\ history' = new_batch(history).self
    /\ result' = new_batch(history).ret
    /\ call' = Call("new_batch", "", NoneV, NoneV)

Record(attr, value) ==
    /\ history' = record(history, attr, value).self
    /\ result' = record(history, attr, value).ret
    /\ call' = Call("record", attr, value, NoneV)

RecordBatch(attr, value) ==
    /\ history' = record_batch(history, attr, value).self
    /\ result' = record_batch(history, attr, value).ret
    /\ call' = Call("record_batch", attr, value, NoneV)

Query(i) ==
    /\ result' = getitem(history, i)
    /\ call' = Call("getitem", "", NoneV, i)
    /\ UNCHANGED history

None == <<>>

All == SliceV(None, None)

---------------------------------------------------------------------------
(* Spec: the writers with every kind of argument, and the queries of the   *)
(* current epoch and batch.                                                *)

MaxEpochs == 2

MaxBatches == 2

Attrs == {"a", "batches"}

Values == <<IntV(1), ListV(<<DictV("a" :> IntV(1))>>)>>

BatchAttrs == {"a", "b"}

BatchValues == <<IntV(1), IntV(2)>>

Current == <<IntV(-1),
             TupleV(<<IntV(-1), StrV("batches")>>),
             TupleV(<<IntV(-1), StrV("batches"), IntV(-1)>>)>>

Next ==
    \/ NewEpoch(MaxEpochs)
    \/ NewBatch(MaxBatches)
    \/ \E attr \in Attrs, n \in DOMAIN Values : Record(attr, Values[n])
    \/ \E attr \in BatchAttrs, n \in DOMAIN BatchValues :
            RecordBatch(attr, BatchValues[n])
    \/ \E n \in DOMAIN Current : Query(Current[n])

Spec == Init /\ [][Next]_vars

---------------------------------------------------------------------------
(* The shape section 3 of the specification gives a Log: every epoch entry *)
(* holds, under `batches`, a list of dicts.                                *)

IsBatchSequence(x) ==
    x.t = "list" /\ \A j \in 1..Len(x.items) : x.items[j].t = "dict"

HasBatches(epoch) ==
    /\ epoch.t = "dict"
    /\ "batches" \in DOMAIN epoch.map
    /\ IsBatchSequence(epoch.map["batches"])

WellFormed(self) == \A e \in 1..Len(self) : HasBatches(self[e])

BatchesOf(epoch) == epoch.map["batches"].items

Writers == {"new_epoch", "new_batch", "record", "record_batch"}

LatestBatch == TupleV(<<IntV(-1), StrV("batches"), IntV(-1)>>)

---------------------------------------------------------------------------
(* C6: record and new_batch on a log without epochs, and record_batch on   *)
(* a log without epochs or whose current epoch has no batches, raise       *)
(* (AssertionError for record, IndexError for the other two), and a        *)
(* writer that raises leaves the log as it was.                            *)
C6_FailedWritersChangeNothing ==
    [][/\ (call'.op = "record" /\ history = <<>>)
            => (result' = Raise("AssertionError", "") /\ history' = history)
       /\ (call'.op \in {"new_batch", "record_batch"} /\ history = <<>>)
            => (result' = Raise("IndexError", "") /\ history' = history)
       /\ (/\ call'.op = "record_batch"
           /\ history # <<>>
           /\ HasBatches(history[Len(history)])
           /\ BatchesOf(history[Len(history)]) = <<>>)
            => (result' = Raise("IndexError", "") /\ history' = history)
       /\ (call'.op \in Writers /\ IsRaise(result')) => history' = history
      ]_vars

(* record_batch has failed on a log whose current epoch has no batches *)
C6_Witness ==
    /\ call.op = "record_batch"
    /\ result = Raise("IndexError", "")
    /\ Len(history) = 2
    /\ HasBatches(history[2])
    /\ BatchesOf(history[2]) = <<>>
    /\ Len(BatchesOf(history[1])) = 1

---------------------------------------------------------------------------
(* One step keeps the batches: every epoch is still there with a batch     *)
(* sequence under `batches`, in which every batch it held is at its place  *)
(* with at least the fields it had; the only new batch is the empty one a  *)
(* successful new_batch appends to the current epoch.                      *)
BatchesKept ==
    /\ WellFormed(history')
    /\ Len(history') >= Len(history)
    /\ \A e \in 1..Len(history) :
          LET old == BatchesOf(history[e])
              new == BatchesOf(history'[e])
              opened == IF /\ call'.op = "new_batch"
                           /\ result' = NoneV
                           /\ e = Len(history)
                        THEN 1 ELSE 0
          IN  /\ Len(new) = Len(old) + opened
              /\ \A j \in 1..Len(old) :
                    DOMAIN old[j].map \subseteq DOMAIN new[j].map
              /\ opened = 1 => new[Len(new)] = EmptyDict

(* C7 as stated: after any calls of the writers, with any field names,     *)
(* every epoch holds under `batches` the sequence of all the batches       *)
(* created in it, in creation order.                                       *)
C7_BatchesKeptByAnyCall ==
    [][WellFormed(history) => BatchesKept]_vars

(* C7 amended: the same, for the calls other than record(`batches`, ...).  *)
C7_BatchesKeptUnlessRecorded ==
    [][(WellFormed(history) /\ ~(call'.op = "record" /\ call'.attr = "batches"))
          => BatchesKept]_vars

(* a batch opened in the second epoch while the first holds two batches,   *)
(* the first of them with two fields                                       *)
C7_Witness ==
    /\ WellFormed(history)
    /\ Len(history) = 2
    /\ Len(BatchesOf(history[1])) = 2
    /\ DOMAIN BatchesOf(history[1])[1].map = {"a", "b"}
    /\ Len(BatchesOf(history[2])) = 1
    /\ call.op = "new_batch"
    /\ result = NoneV

---------------------------------------------------------------------------
(* What history[-1, 'batches', -1] is to give on a well-formed log: the    *)
(* last batch of the last epoch, an IndexError when there is none.         *)
CurrentBatch(self) ==
    IF self = <<>> \/ BatchesOf(self[Len(self)]) = <<>>
    THEN Raise("IndexError", "")
    ELSE BatchesOf(self[Len(self)])[Len(BatchesOf(self[Len(self)]))]

(* What one call does to the current batch, but for `record`. *)
CurrentBatchFollows ==
    /\ (call'.op = "getitem" /\ call'.i = LatestBatch)
          => result' = CurrentBatch(history)
    /\ (call'.op = "new_batch" /\ result' = NoneV)
          => CurrentBatch(history') = EmptyDict
    /\ (call'.op = "new_epoch")
          => CurrentBatch(history') = Raise("IndexError", "")
    /\ (call'.op = "record_batch" /\ result' = NoneV)
          => CurrentBatch(history') =
                DictV(DictSet(CurrentBatch(history).map, call'.attr, call'.value))
    /\ (call'.op \in Writers /\ IsRaise(result'))
          => CurrentBatch(history') = CurrentBatch(history)

(* C8 as stated: after any calls of the writers, history[-1, 'batches',    *)
(* -1] is the last batch of the last epoch, holding exactly the fields     *)
(* record_batch wrote since new_batch created it, each at the value        *)
(* written last (an IndexError when the last epoch has no batch): the      *)
(* batch starts empty, record_batch sets one field of it, and no other     *)
(* call touches it.                                                        *)
C8_LatestBatchAfterAnyCall ==
    [][(WellFormed(history) /\ WellFormed(history'))
          => /\ CurrentBatchFollows
             /\ call'.op = "record"
                   => CurrentBatch(history') = CurrentBatch(history)]_vars

(* C8 amended: the same, for the calls other than record(`batches`, ...).  *)
C8_LatestBatchUnlessRecorded ==
    [][(WellFormed(history) /\ WellFormed(history'))
          => /\ CurrentBatchFollows
             /\ (call'.op = "record" /\ call'.attr # "batches")
                   => CurrentBatch(history') = CurrentBatch(history)]_vars

(* the query has returned the second batch of the second epoch, whose      *)
(* field `a` was written last with 2                                       *)
C8_Witness ==
    /\ call.op = "getitem"
    /\ call.i = LatestBatch
    /\ Len(history) = 2
    /\ WellFormed(history)
    /\ Len(BatchesOf(history[2])) = 2
    /\ BatchesOf(history[2])[1] = DictV("a" :> IntV(1))
    /\ result = DictV(("a" :> IntV(2)) @@ ("b" :> IntV(1)))

---------------------------------------------------------------------------
(* SpecEpochs: three epochs with the fields `a` and `b` and at most one    *)
(* batch each, queried by an epoch range and a column or a group of        *)
(* columns.                                                                *)

EpochsMaxEpochs == 3

EpochsMaxBatches == 1

EpochAttrs == {"a", "b"}

EpochValues == <<IntV(1), IntV(2)>>

Starts == <<None, <<1>>, <<-1>>>>

Stops == <<None, <<-1>>>>

Columns == <<StrV("a"), StrV("batches"), TupleV(<<StrV("a"), StrV("b")>>)>>

NextEpochs ==
    \/ NewEpoch(EpochsMaxEpochs)
    \/ NewBatch(EpochsMaxBatches)
    \/ \E attr \in EpochAttrs, n \in DOMAIN EpochValues :
            Record(attr, EpochValues[n])
    \/ \E b \in DOMAIN Starts, e \in DOMAIN Stops, c \in DOMAIN Columns :
            Query(TupleV(<<SliceV(Starts[b], Stops[e]), Columns[c]>>))

SpecEpochs == Init /\ [][NextEpochs]_vars

---------------------------------------------------------------------------
(* What the claims about an epoch range and its columns speak of.          *)

(* the j-th smallest member of a set of numbers *)
Nth(K, j) == CHOOSE e \in K : Cardinality({x \in K : x < e}) = j - 1

(* the members of `self` a range selects, as positions 1..Len(self) *)
Selected(self, range) ==
    {e \in 1..Len(self) :
        /\ SliceBound(range.start, Len(self), 0) < e
        /\ e <= SliceBound(range.stop, Len(self), Len(self))}

(* the selected epochs that hold every one of the names *)
Holding(range, names) ==
    {e \in Selected(history, range) :
        \A j \in 1..Len(names) : names[j].str \in DOMAIN history[e].map}

(* the query made last is (range, name) *)
IsColumnQuery ==
    /\ call.op = "getitem"
    /\ call.i.t = "tuple"
    /\ Len(call.i.elts) = 2
    /\ call.i.elts[1].t = "slice"
    /\ call.i.elts[2].t = "str"

(* the query made last is (range, (name, name)) *)
IsGroupQuery ==
    /\ call.op = "getitem"
    /\ call.i.t = "tuple"
    /\ Len(call.i.elts) = 2
    /\ call.i.elts[1].t = "slice"
    /\ call.i.elts[2].t = "tuple"

Range == call.i.elts[1]

(* the values of a column in the epochs of K, in epoch order *)
ColumnOver(K, name) ==
    ListV([j \in 1..Cardinality(K) |-> history[Nth(K, j)].map[name.str]])

(* the composites of a group of columns in the epochs of K, in epoch order *)
GroupOver(K, names) ==
    ListV([j \in 1..Cardinality(K) |->
              TupleV([m \in 1..Len(names) |->
                         history[Nth(K, j)].map[names[m].str]])])

---------------------------------------------------------------------------
(* C1: history[range, f], with f in at least one selected epoch, returns   *)
(* the values of f of the selected epochs that hold f, in epoch order, and *)
(* nothing for the selected epochs that lack it.                           *)
C1_ColumnOfEpochsHoldingIt ==
    (IsColumnQuery /\ Holding(Range, <<call.i.elts[2]>>) # {})
        => result = ColumnOver(Holding(Range, <<call.i.elts[2]>>), call.i.elts[2])

(* `a` is in the first and the third of three epochs and not in the second *)
C1_Witness ==
    /\ IsColumnQuery
    /\ call.i.elts[2] = StrV("a")
    /\ Len(history) = 3
    /\ Selected(history, Range) = {1, 2, 3}
    /\ Holding(Range, <<StrV("a")>>) = {1, 3}
    /\ result = ListV(<<IntV(2), IntV(1)>>)

---------------------------------------------------------------------------
(* C2 as stated: history[:, f] with f in none of the epochs raises         *)
(* KeyError, and never returns a sequence.                                 *)
C2_KeyErrorWhenNoEpochHoldsIt ==
    (IsColumnQuery /\ Range = All /\ Holding(Range, <<call.i.elts[2]>>) = {})
        => IsKeyError(result)

(* C2 amended: history[range, f] with f in none of the selected epochs     *)
(* raises KeyError(f) when the range selects an epoch, and returns the     *)
(* empty list when it selects none.                                        *)
C2_KeyErrorWhenSomeEpochSelected ==
    (IsColumnQuery /\ Holding(Range, <<call.i.elts[2]>>) = {})
        => result = IF Selected(history, Range) # {}
                    THEN Raise("KeyError", call.i.elts[2].str)
                    ELSE ListV(<<>>)

(* two of three epochs selected, `a` in the first one only *)
C2_Witness ==
    /\ IsColumnQuery
    /\ call.i.elts[2] = StrV("a")
    /\ Len(history) = 3
    /\ Selected(history, Range) = {2, 3}
    /\ "a" \in DOMAIN history[1].map
    /\ result = Raise("KeyError", "a")

---------------------------------------------------------------------------
(* C4 as stated: history[range, (a, b)] returns one composite (a, b) for   *)
(* each selected epoch that holds both, in epoch order, each from one      *)
(* epoch.                                                                  *)
C4_GroupOfEpochsHoldingAll ==
    IsGroupQuery
        => result = GroupOver(Holding(Range, call.i.elts[2].elts),
                              call.i.elts[2].elts)

(* C4 amended: so it does unless epochs are selected and none of them      *)
(* holds both, when it raises KeyError.                                    *)
C4_GroupOrKeyError ==
    IsGroupQuery
        => IF /\ Selected(history, Range) # {}
              /\ Holding(Range, call.i.elts[2].elts) = {}
           THEN IsKeyError(result)
           ELSE result = GroupOver(Holding(Range, call.i.elts[2].elts),
                                   call.i.elts[2].elts)

(* three epochs selected: the first holds `a` only, the second `b` only,   *)
(* the third both                                                          *)
C4_Witness ==
    /\ IsGroupQuery
    /\ call.i.elts[2] = TupleV(<<StrV("a"), StrV("b")>>)
    /\ Len(history) = 3
    /\ Selected(history, Range) = {1, 2, 3}
    /\ DOMAIN history[1].map = {"a", "batches"}
    /\ DOMAIN history[2].map = {"b", "batches"}
    /\ result = ListV(<<TupleV(<<IntV(1), IntV(2)>>)>>)

---------------------------------------------------------------------------
(* SpecBatches: three epochs of at most two batches with the field `a`,    *)
(* queried through `batches` by a batch offset or range, and by the batch  *)
(* column `a`.                                                             *)

BatchesMaxEpochs == 3

BatchesMaxBatches == 2

Ranges == <<All, SliceV(<<1>>, None), SliceV(None, <<-1>>)>>

Offsets == <<IntV(0), IntV(-1), All, SliceV(<<1>>, None)>>

NextBatches ==
    \/ NewEpoch(BatchesMaxEpochs)
    \/ NewBatch(BatchesMaxBatches)
    \/ \E n \in DOMAIN BatchValues : RecordBatch("a", BatchValues[n])
    \/ \E r \in DOMAIN Ranges, k \in DOMAIN Offsets :
            Query(TupleV(<<Ranges[r], StrV("batches"), Offsets[k]>>))
    \/ \E r \in DOMAIN Ranges :
            Query(TupleV(<<Ranges[r], StrV("batches"), All, StrV("a")>>))

SpecBatches == Init /\ [][NextBatches]_vars

---------------------------------------------------------------------------
(* the query made last is (range, 'batches', k), k an offset or a range *)
IsBatchQuery ==
    /\ call.op = "getitem"
    /\ call.i.t = "tuple"
    /\ Len(call.i.elts) = 3
    /\ call.i.elts[1].t = "slice"
    /\ call.i.elts[2] = StrV("batches")
    /\ call.i.elts[3].t \in {"int", "slice"}

(* the query made last is (range, 'batches', :, name) *)
IsBatchColumnQuery ==
    /\ call.op = "getitem"
    /\ call.i.t = "tuple"
    /\ Len(call.i.elts) = 4
    /\ call.i.elts[1].t = "slice"
    /\ call.i.elts[2] = StrV("batches")
    /\ call.i.elts[3] = All
    /\ call.i.elts[4].t = "str"

(* k applied to the batches of one epoch *)
BatchesAt(e, k) ==
    IF k.t = "int" THEN ListIndex(BatchesOf(history[e]), k.int)
    ELSE ListV([j \in 1..Cardinality(Selected(BatchesOf(history[e]), k)) |->
                   BatchesOf(history[e])[Nth(Selected(BatchesOf(history[e]), k), j)]])

(* k applied to the batches of each epoch of K, in epoch order; the first  *)
(* IndexError if an epoch has no batch at offset k                         *)
EachBatchesAt(K, k) ==
    Collect([j \in 1..Cardinality(K) |-> BatchesAt(Nth(K, j), k)])

(* the batches of epoch e that hold the field *)
BatchesHolding(e, name) ==
    {j \in 1..Len(BatchesOf(history[e])) :
        name.str \in DOMAIN BatchesOf(history[e])[j].map}

(* the values of the field in the batches of epoch e, in batch order *)
BatchColumn(e, name) ==
    ListV([j \in 1..Cardinality(BatchesHolding(e, name)) |->
              BatchesOf(history[e])[Nth(BatchesHolding(e, name), j)].map[name.str]])

(* the selected epochs that stay in the result: those without a batch and  *)
(* those with a batch that holds the field                                 *)
Staying(range, name) ==
    {e \in Selected(history, range) :
        BatchesOf(history[e]) = <<>> \/ BatchesHolding(e, name) # {}}

---------------------------------------------------------------------------
(* What history[range, 'batches', :, f] holds when it returns: in epoch    *)
(* order, one inner list per selected epoch that has no batch (an empty    *)
(* list) or has a batch with f (the values of f of its batches that hold   *)
(* f, in batch order); a selected epoch whose batches all lack f is left   *)
(* out.                                                                    *)
FilteredBatchColumn ==
    ListV([j \in 1..Cardinality(Staying(Range, call.i.elts[4])) |->
              BatchColumn(Nth(Staying(Range, call.i.elts[4]), j), call.i.elts[4])])

(* C9 as stated: history[range, 'batches', :, f] has that result.          *)
C9_BatchColumnFiltered ==
    IsBatchColumnQuery => result = FilteredBatchColumn

(* C9 amended: it has that result unless epochs are selected and every one *)
(* of them is left out, when it raises KeyError(f).                        *)
C9_BatchColumnFilteredOrKeyError ==
    IsBatchColumnQuery
        => result = IF /\ Selected(history, Range) # {}
                       /\ Staying(Range, call.i.elts[4]) = {}
                    THEN Raise("KeyError", call.i.elts[4].str)
                    ELSE FilteredBatchColumn

(* three epochs selected: the first with a batch holding `a` and a batch   *)
(* lacking it, the second with one batch lacking it, the third with none   *)
C9_Witness ==
    /\ IsBatchColumnQuery
    /\ Len(history) = 3
    /\ Selected(history, Range) = {1, 2, 3}
    /\ BatchesOf(history[1]) = <<EmptyDict, DictV("a" :> IntV(2))>>
    /\ BatchesOf(history[2]) = <<EmptyDict>>
    /\ BatchesOf(history[3]) = <<>>
    /\ result = ListV(<<ListV(<<IntV(2)>>), ListV(<<>>)>>)

---------------------------------------------------------------------------
(* C10 as stated: history[range, 'batches', k] applies k to the batches of *)
(* each selected epoch and returns one result per selected epoch, in epoch *)
(* order; k is never applied to the sequence of the selected epochs.       *)
C10_OffsetPerEpoch ==
    IsBatchQuery
        => result = EachBatchesAt(Selected(history, Range), call.i.elts[3])

(* C10 amended: so it does when the range selects an epoch; when it        *)
(* selects none, k is applied to the empty sequence of the selected epochs *)
(* (an IndexError for an offset, the empty list for a range).              *)
C10_OffsetPerSelectedEpoch ==
    IsBatchQuery
        => result = IF Selected(history, Range) # {}
                    THEN EachBatchesAt(Selected(history, Range), call.i.elts[3])
                    ELSE IF call.i.elts[3].t = "int" THEN Raise("IndexError", "")
                    ELSE ListV(<<>>)

(* the last batch of each of two selected epochs, the first of which has   *)
(* two batches                                                             *)
C10_Witness ==
    /\ IsBatchQuery
    /\ call.i.elts[3] = IntV(-1)
    /\ Len(history) = 3
    /\ Selected(history, Range) = {2, 3}
    /\ BatchesOf(history[2]) = <<DictV("a" :> IntV(1)), DictV("a" :> IntV(2))>>
    /\ BatchesOf(history[3]) = <<EmptyDict>>
    /\ result = ListV(<<DictV("a" :> IntV(2)), EmptyDict>>)

---------------------------------------------------------------------------
(* SpecColumns: two epochs of at most one batch, with the fields `a` and   *)
(* `b` in epochs and batches and with a dict and a list of dicts among the *)
(* values of `a`, queried by composites of up to four parts.               *)

ColumnsMaxEpochs == 2

ColumnsMaxBatches == 1

ColumnValues == <<IntV(1), EmptyDict, ListV(<<EmptyDict>>)>>

EpochParts == <<All, IntV(-1)>>

ColumnParts == <<StrV("a"), StrV("batches"), TupleV(<<StrV("a"), StrV("b")>>)>>

NestedParts == <<StrV("a"), StrV("batches")>>

BatchParts == <<All, IntV(-1)>>

BatchColumnParts == <<StrV("a"), TupleV(<<StrV("a"), StrV("b")>>)>>

NextColumns ==
    \/ NewEpoch(ColumnsMaxEpochs)
    \/ NewBatch(ColumnsMaxBatches)
    \/ \E n \in DOMAIN ColumnValues : Record("a", ColumnValues[n])
    \/ Record("b", IntV(1))
    \/ \E attr \in BatchAttrs : RecordBatch(attr, IntV(1))
    \/ \E e \in DOMAIN EpochParts, c \in DOMAIN ColumnParts :
            Query(TupleV(<<EpochParts[e], ColumnParts[c]>>))
    \/ \E e \in DOMAIN EpochParts, c \in DOMAIN NestedParts, b \in DOMAIN BatchParts :
            Query(TupleV(<<EpochParts[e], NestedParts[c], BatchParts[b]>>))
    \/ \E e \in DOMAIN EpochParts, c \in DOMAIN NestedParts,
          b \in DOMAIN BatchParts, d \in DOMAIN BatchColumnParts :
            Query(TupleV(<<EpochParts[e], NestedParts[c], BatchParts[b],
                           BatchColumnParts[d]>>))

SpecColumns == Init /\ [][NextColumns]_vars

---------------------------------------------------------------------------
(* the query made last is a composite that ends with a column part *)
EndsWithColumns ==
    /\ call.op = "getitem"
    /\ call.i.t = "tuple"
    /\ Len(call.i.elts) \in {2, 4}
    /\ call.i.elts[Len(call.i.elts)].t \in {"str", "tuple"}

(* the names the last part asks for *)
Requested ==
    IF call.i.elts[Len(call.i.elts)].t = "str"
    THEN <<call.i.elts[Len(call.i.elts)]>>
    ELSE call.i.elts[Len(call.i.elts)].elts

(* the value in scope when the last part is applied *)
Scope == Parts(ListV(history), SubSeq(call.i.elts, 1, Len(call.i.elts) - 1))

RECURSIVE Entries(_)
(* the epoch or batch entries of a value in scope: the dicts in it *)
Entries(x) ==
    IF x.t = "dict" THEN <<x>>
    ELSE IF x.t = "list" /\ x.items # <<>>
    THEN Entries(Head(x.items)) \o Entries(ListV(Tail(x.items)))
    ELSE <<>>

HoldsAll(entry, names) ==
    \A j \in 1..Len(names) : names[j].str \in DOMAIN entry.map

---------------------------------------------------------------------------
---------------------------------------------------------------------------
RECURSIVE HasMarker(_)
(* a missing marker in a value, at any depth *)
HasMarker(x) ==
    CASE x.t = "missingno" -> TRUE
      [] x.t = "list" -> \E j \in 1..Len(x.items) : HasMarker(x.items[j])
      [] x.t = "tuple" -> \E j \in 1..Len(x.elts) : HasMarker(x.elts[j])
      [] x.t = "dict" -> \E k \in DOMAIN x.map : HasMarker(x.map[k])
      [] OTHER -> FALSE

(* C5: a composite query of up to four parts that returns, returns a value *)
(* without a missing marker at any depth, neither as an element of a list  *)
(* nor as a component of a joined composite.                               *)
C5_NoMarkerReturned ==
    (call.op = "getitem" /\ ~IsRaise(result)) => ~HasMarker(result)

=============================================================================
